---- MODULE Spec2Model ----
(***************************************************************************)
(* Model of admin.py, the admin script of the Resume Improvement Tool.     *)
(*                                                                         *)
(* One process run is one behaviour: Init fixes the command line and the   *)
(* environment (repository contents, working directory, .gitignore), and   *)
(* every action is one step of main() or of the procedure it dispatches    *)
(* to.  What the outside world answers (exit code of a child process,      *)
(* HTTP outcome, what the user types, whether a filesystem call raises)    *)
(* is chosen with \E at the step that asks for it.                         *)
(*                                                                         *)
(* Environment assumptions: standard input is a terminal that answers      *)
(* every prompt, /bin/sh can be spawned in both working directories, and   *)
(* no directory named backup_<timestamp> exists before the run.            *)
(***************************************************************************)
EXTENDS Integers, Sequences, FiniteSets, TLC

\* number of paths of the repository the model distinguishes
MaxFiles == 2
\* child processes exit with a code in 0..MaxExitCode
MaxExitCode == 2

VARIABLES
    argv,             \* sys.argv[1:], each argument a sequence of characters
    cwdIsRoot,        \* the process was started in PROJECT_ROOT
    backupIgnored,    \* .gitignore excludes backup_<timestamp>/ from listings
    repo,             \* path -> [head, idx, work, ign]: content in HEAD, index, working tree
    pc,               \* position of the process
    command,          \* main's local `command`
    exitCode,         \* exit code of the process, -1 while it runs
    out,              \* what was printed, in order
    log,              \* external operations performed, in order
    frontend_ok,      \* main's local: "unset" until deploy_frontend returns, then "True" or "False"
    backend_ok,       \* main's local, "unset" until deploy_backend returns
    backup_dir,       \* the directory backup_<timestamp> in the process's cwd
    archive,          \* PROJECT_ROOT/backup_<timestamp>.tar.gz
    untracked_files   \* create_backup's local list, the part not yet iterated

envVars    == <<argv, cwdIsRoot, backupIgnored>>
deployVars == <<frontend_ok, backend_ok>>
backupVars == <<backup_dir, archive, untracked_files>>

vars == <<argv, cwdIsRoot, backupIgnored, repo, pc, command, exitCode, out, log,
          frontend_ok, backend_ok, backup_dir, archive, untracked_files>>

-----------------------------------------------------------------------------
(* Strings: an argument is a sequence of one-character strings, so that    *)
(* str.lower() is computed and not assumed.                                 *)

UpperChars == <<"A","B","C","D","E","F","G","H","I","J","K","L","M",
                "N","O","P","Q","R","S","T","U","V","W","X","Y","Z">>
LowerChars == <<"a","b","c","d","e","f","g","h","i","j","k","l","m",
                "n","o","p","q","r","s","t","u","v","w","x","y","z">>

LowerChar(c) ==
    IF \E i \in 1..Len(UpperChars) : UpperChars[i] = c
    THEN LowerChars[CHOOSE i \in 1..Len(UpperChars) : UpperChars[i] = c]
    ELSE c

lower(s) == [i \in 1..Len(s) |-> LowerChar(s[i])]

S_deploy_frontend == <<"d","e","p","l","o","y","-","f","r","o","n","t","e","n","d">>
S_deploy_backend  == <<"d","e","p","l","o","y","-","b","a","c","k","e","n","d">>
S_deploy_all      == <<"d","e","p","l","o","y","-","a","l","l">>
S_status          == <<"s","t","a","t","u","s">>
S_update_deps     == <<"u","p","d","a","t","e","-","d","e","p","s">>
S_backup          == <<"b","a","c","k","u","p">>
S_help            == <<"h","e","l","p">>
S_dashdash_help   == <<"-","-","h","e","l","p">>
S_dash_h          == <<"-","h">>
S_y               == <<"y">>

HelpCommands == {S_help, S_dashdash_help, S_dash_h}

KnownCommands ==
    {S_deploy_frontend, S_deploy_backend, S_deploy_all, S_status,
     S_update_deps, S_backup} \cup HelpCommands

\* first arguments the model tries: every command, mixed-case spellings,
\* and strings that are no command
FirstArgs ==
    KnownCommands \cup
    { <<"U","p","d","a","t","e","-","D","e","p","s">>,
      <<"B","A","C","K","U","P">>,
      <<"H","E","L","P">>,
      <<"-","H">>,
      <<"d","e","p","l","o","y">>,
      <<"h","e","l","p","!">>,
      <<"F","o","o">>,
      <<>> }

\* what the user may type at a y/n prompt
Answers == { <<"y">>, <<"Y">>, <<"n">>, <<"y","e","s">>, <<>> }

\* what the user may type as a commit message
CommitMessages == {"wip", "release"}

-----------------------------------------------------------------------------
(* Printing.  A printed line is [kind, text, arg]: the helper that printed *)
(* it, its literal text and the value interpolated into it.                 *)

NoArg == <<>>
Line(kind, text, arg) == [kind |-> kind, text |-> text, arg |-> arg]

print_header(text)       == Line("header", text, NoArg)
print_success(text, arg) == Line("success", text, arg)
print_error(text, arg)   == Line("error", text, arg)
print_info(text, arg)    == Line("info", text, arg)
print_warning(text, arg) == Line("warning", text, arg)
print(text, arg)         == Line("plain", text, arg)

show_help ==
    << print_header("Resume Improvement Tool Admin Script"),
       print("Available commands:", NoArg),
       print("  deploy-frontend   - Deploy frontend to GitHub Pages", NoArg),
       print("  deploy-backend    - Deploy backend to Heroku", NoArg),
       print("  deploy-all        - Deploy both frontend and backend", NoArg),
       print("  status            - Check status of deployments", NoArg),
       print("  update-deps       - Update npm dependencies", NoArg),
       print("  backup            - Create a project backup", NoArg),
       print("  help              - Show this help information", NoArg),
       print("\nUsage: python admin.py [command]", NoArg) >>

-----------------------------------------------------------------------------
(* The process runner.                                                      *)

ExitCodes == 0..MaxExitCode

\* variant: the strict flag is not handed on to subprocess.run
RaisesCalledProcessError_Never(check, code) == FALSE

\* subprocess.run(check=check) raises CalledProcessError exactly when check
\* is set and the child exits non-zero
RaisesCalledProcessError(check, code) == check /\ code # 0

\* variant: the except branch reports the failure and returns instead of
\* calling sys.exit
run_command_NoExit(cmd, cwd, check, stdout, code) ==
    IF check /\ code # 0
    THEN [ printed |-> << print_error("Command failed: ", cmd), print("<stderr>", NoArg) >>,
           exits   |-> FALSE,
           stdout  |-> <<>>,
           code    |-> code ]
    ELSE [ printed |-> << >>,
           exits   |-> FALSE,
           stdout  |-> stdout,
           code    |-> code ]

\* run_command(command, cwd, check) when the child process exits with `code`
\* and has written `stdout`: what it prints, whether it ends the program
\* (sys.exit(1)) and the triple it returns otherwise.
run_command(cmd, cwd, check, stdout, code) ==
    IF RaisesCalledProcessError(check, code)
    THEN [ printed |-> << print_error("Command failed: ", cmd), print("<stderr>", NoArg) >>,
           exits   |-> check,
           stdout  |-> "None",
           code    |-> code ]
    ELSE [ printed |-> << >>,
           exits   |-> FALSE,
           stdout  |-> stdout,
           code    |-> code ]

\* one entry of the log for an invocation of run_command: the command, its
\* working directory and strict flag, the child's exit code, whether
\* run_command returned or raised SystemExit, and the exit code and stdout
\* it handed to its caller
Ran(cmd, cwd, check, code, r) ==
    [ kind |-> "run", op |-> cmd, cwd |-> cwd, check |-> check, code |-> code,
      outcome |-> IF r.exits THEN "SystemExit" ELSE "returned",
      ret |-> IF r.exits THEN -1 ELSE r.code,
      val |-> IF r.exits THEN <<>> ELSE r.stdout ]

\* one entry of the log for a direct library call (input, os, shutil,
\* requests): whether it returned or raised, and what it returned
Did(op, outcome, val) ==
    [ kind |-> "call", op |-> op, cwd |-> "cwd", check |-> FALSE, code |-> 0,
      outcome |-> outcome, ret |-> 0, val |-> val ]

-----------------------------------------------------------------------------
(* The repository.                                                          *)

Paths == 1..MaxFiles

\* head, idx, work: 0 = the path is not there, otherwise its content
FileStates ==
    { [head |-> 0, idx |-> 0, work |-> 0, ign |-> FALSE],    \* no such file
      [head |-> 1, idx |-> 1, work |-> 1, ign |-> FALSE],    \* tracked, clean
      [head |-> 1, idx |-> 1, work |-> 2, ign |-> FALSE],    \* tracked, modified
      [head |-> 1, idx |-> 1, work |-> 0, ign |-> FALSE],    \* tracked, deleted
      [head |-> 0, idx |-> 2, work |-> 2, ign |-> FALSE],    \* added, not committed
      [head |-> 0, idx |-> 0, work |-> 1, ign |-> FALSE],    \* untracked
      [head |-> 0, idx |-> 0, work |-> 1, ign |-> TRUE] }    \* untracked, ignored

SortedPaths(S) == SelectSeq([i \in 1..MaxFiles |-> i], LAMBDA p : p \in S)

\* paths `git status --porcelain` / `git status -s` print a line for
ChangedPaths(r) ==
    { p \in Paths : \/ r[p].head # r[p].idx
                    \/ r[p].idx # r[p].work /\ ~(r[p].idx = 0 /\ r[p].ign) }

\* stdout of `git status --porcelain` / `git status -s` in PROJECT_ROOT
GitStatusOutput(r) == SortedPaths(ChangedPaths(r))

\* check_git_status: the stripped output is not the empty string
check_git_status(stdout) == stdout # <<>>

\* `git add .`: the index takes the working tree's content of every path
\* that is tracked or not ignored
GitAddAll(r) ==
    [p \in Paths |-> IF r[p].idx = 0 /\ r[p].ign THEN r[p]
                     ELSE [r[p] EXCEPT !.idx = r[p].work]]

\* `git commit`: HEAD takes the index
GitCommit(r) == [p \in Paths |-> [r[p] EXCEPT !.head = r[p].idx]]

-----------------------------------------------------------------------------
(* Control.  pc = "done": main returned, the interpreter exits with 0.      *)
(* pc = "exit1": sys.exit(1) was called and SystemExit left main.           *)

ExitCodeAt(label) ==
    IF label = "done" THEN 0 ELSE IF label = "exit1" THEN 1 ELSE -1

Goto(label, printed, entries) ==
    /\ pc' = label
    /\ exitCode' = ExitCodeAt(label)
    /\ out' = out \o printed
    /\ log' = log \o entries

Init ==
    /\ argv \in {<<>>} \cup {<<a>> : a \in FirstArgs}
    /\ cwdIsRoot \in BOOLEAN
    /\ backupIgnored \in BOOLEAN
    /\ repo \in [Paths -> FileStates]
    /\ pc = "main"
    /\ command = <<>>
    /\ exitCode = -1
    /\ out = <<>>
    /\ log = <<>>
    /\ frontend_ok = "unset"
    /\ backend_ok = "unset"
    /\ backup_dir = [exists |-> FALSE, files |-> {}]
    /\ archive = [exists |-> FALSE, files |-> {}]
    /\ untracked_files = <<>>

-----------------------------------------------------------------------------
(* main                                                                     *)

\* variant: the final else falls back to the help branch without an error
Dispatch_UnknownIsHelp(cmd) ==
    IF cmd = S_deploy_frontend THEN "deploy_frontend"
    ELSE IF cmd = S_deploy_backend THEN "deploy_backend"
    ELSE IF cmd = S_deploy_all THEN "deploy_frontend"
    ELSE IF cmd = S_status THEN "check_status"
    ELSE IF cmd = S_update_deps THEN "update_dependencies"
    ELSE IF cmd = S_backup THEN "create_backup"
    ELSE "help"

\* the branch of main's if/elif chain taken for the lower-cased argument
Dispatch(cmd) ==
    IF cmd = S_deploy_frontend THEN "deploy_frontend"
    ELSE IF cmd = S_deploy_backend THEN "deploy_backend"
    ELSE IF cmd = S_deploy_all THEN "deploy_frontend"
    ELSE IF cmd = S_status THEN "check_status"
    ELSE IF cmd = S_update_deps THEN "update_dependencies"
    ELSE IF cmd = S_backup THEN "create_backup"
    ELSE IF cmd \in HelpCommands THEN "help"
    ELSE "unknown"

Main ==
    /\ pc = "main"
    /\ IF Len(argv) < 1
       THEN /\ Goto("done", show_help, <<>>)
            /\ UNCHANGED command
       ELSE LET cmd == lower(argv[1])
                to == Dispatch(cmd)
            IN /\ command' = cmd
               /\ IF to = "help" THEN Goto("done", show_help, <<>>)
                  ELSE IF to = "unknown"
                  THEN Goto("done", <<print_error("Unknown command: ", cmd)>> \o show_help, <<>>)
                  ELSE Goto(to, <<>>, <<>>)
    /\ UNCHANGED <<envVars, repo, deployVars, backupVars>>

\* variant: `deploy_frontend() and deploy_backend()`, which short-circuits
AfterDeployFrontend_ShortCircuit(cmd, ok) ==
    IF cmd = S_deploy_all /\ ok THEN "deploy_backend" ELSE "done"

\* where main continues when deploy_frontend returns
AfterDeployFrontend(cmd, ok) ==
    IF cmd = S_deploy_all THEN "deploy_backend" ELSE "done"

\* variant: `frontend_ok or backend_ok`
DeploySummary_Or(cmd, f_ok, b_ok) ==
    IF cmd # S_deploy_all THEN <<>>
    ELSE IF f_ok \/ b_ok
    THEN <<print_success("Both frontend and backend deployed successfully!", NoArg)>>
    ELSE <<print_warning("There were issues with the deployment. Check the logs above.", NoArg)>>

\* main's summary after both steps of deploy-all
DeploySummary(cmd, f_ok, b_ok) ==
    IF cmd # S_deploy_all THEN <<>>
    ELSE IF f_ok /\ b_ok
    THEN <<print_success("Both frontend and backend deployed successfully!", NoArg)>>
    ELSE <<print_warning("There were issues with the deployment. Check the logs above.", NoArg)>>

-----------------------------------------------------------------------------
(* deploy_frontend                                                          *)

\* a Python bool as it is kept in main's locals
PyBool(b) == IF b THEN "True" ELSE "False"

ReturnFromFrontend(ok, printed, entries) ==
    /\ frontend_ok' = PyBool(ok)
    /\ Goto(AfterDeployFrontend(command, ok), printed, entries)
    /\ UNCHANGED <<envVars, repo, command, backend_ok, backupVars>>

DF_CheckGit ==
    /\ pc = "deploy_frontend"
    /\ \E code \in ExitCodes :
         LET cmd == "git status --porcelain"
             r == run_command(cmd, "root", TRUE, GitStatusOutput(repo), code)
             hdr == <<print_header("Deploying Frontend to GitHub Pages")>>
             e == <<Ran(cmd, "root", TRUE, code, r)>>
         IN IF r.exits THEN Goto("exit1", hdr \o r.printed, e)
            ELSE IF check_git_status(r.stdout)
            THEN Goto("df_prompt",
                      hdr \o <<print_warning("There are uncommitted changes in the repository.", NoArg)>>, e)
            ELSE Goto("df_build", hdr, e)
    /\ UNCHANGED <<envVars, repo, command, deployVars, backupVars>>

\* variant: `response == 'n'`
Declined_OnlyN(response) == response = <<"n">>

\* the test `response != 'y'` on the lower-cased answer
Declined(response) == response # S_y

DF_Prompt ==
    /\ pc = "df_prompt"
    /\ \E ans \in Answers :
         LET response == lower(ans)
             e == <<Did("input: Do you want to continue anyway? (y/n): ", "returned", response)>>
         IN IF Declined(response)
            THEN ReturnFromFrontend(FALSE, <<print_info("Deployment cancelled.", NoArg)>>, e)
            ELSE /\ Goto("df_build", <<>>, e)
                 /\ UNCHANGED <<envVars, repo, command, deployVars, backupVars>>

DF_Build ==
    /\ pc = "df_build"
    /\ \E code \in ExitCodes :
         LET cmd == "npm run build"
             r == run_command(cmd, "root", FALSE, <<>>, code)
             info == <<print_info("Building frontend...", NoArg)>>
             e == <<Ran(cmd, "root", FALSE, code, r)>>
         IN IF r.exits
            THEN /\ Goto("exit1", info \o r.printed, e)
                 /\ UNCHANGED <<envVars, repo, command, deployVars, backupVars>>
            ELSE IF r.code # 0
            THEN ReturnFromFrontend(FALSE,
                     info \o r.printed \o <<print_error("Frontend build failed:", NoArg),
                                             print("<stderr>", NoArg)>>, e)
            ELSE /\ Goto("df_publish",
                         info \o r.printed \o <<print_success("Frontend built successfully", NoArg)>>, e)
                 /\ UNCHANGED <<envVars, repo, command, deployVars, backupVars>>

DF_Publish ==
    /\ pc = "df_publish"
    /\ \E code \in ExitCodes :
         LET cmd == "npx gh-pages -d build -r GITHUB_REPO_URL"
             r == run_command(cmd, "root", FALSE, <<>>, code)
             info == <<print_info("Deploying to GitHub Pages...", NoArg)>>
             e == <<Ran(cmd, "root", FALSE, code, r)>>
         IN IF r.exits
            THEN /\ Goto("exit1", info \o r.printed, e)
                 /\ UNCHANGED <<envVars, repo, command, deployVars, backupVars>>
            ELSE IF r.code # 0
            THEN ReturnFromFrontend(FALSE,
                     info \o r.printed \o <<print_error("GitHub Pages deployment failed:", NoArg),
                                             print("<stderr>", NoArg)>>, e)
            ELSE ReturnFromFrontend(TRUE,
                     info \o r.printed \o <<print_success("Frontend deployed to GitHub Pages", NoArg),
                                             print_info("Frontend URL: ", "GITHUB_PAGES_URL")>>, e)

-----------------------------------------------------------------------------
(* deploy_backend                                                           *)

ReturnFromBackend(ok, printed, entries) ==
    /\ backend_ok' = PyBool(ok)
    /\ Goto("done", printed \o DeploySummary(command, frontend_ok = "True", ok), entries)
    /\ UNCHANGED <<envVars, repo, command, frontend_ok, backupVars>>

DB_CheckGit ==
    /\ pc = "deploy_backend"
    /\ \E code \in ExitCodes :
         LET cmd == "git status --porcelain"
             r == run_command(cmd, "root", TRUE, GitStatusOutput(repo), code)
             hdr == <<print_header("Deploying Backend to Heroku")>>
             e == <<Ran(cmd, "root", TRUE, code, r)>>
         IN IF r.exits THEN Goto("exit1", hdr \o r.printed, e)
            ELSE IF check_git_status(r.stdout)
            THEN Goto("db_prompt",
                      hdr \o <<print_warning("There are uncommitted changes in the repository.", NoArg)>>, e)
            ELSE Goto("db_push", hdr, e)
    /\ UNCHANGED <<envVars, repo, command, deployVars, backupVars>>

DB_Prompt ==
    /\ pc = "db_prompt"
    /\ \E ans \in Answers :
         LET response == lower(ans)
             e == Did("input: Do you want to commit them before deployment? (y/n): ", "returned", response)
         IN IF response = S_y
            THEN \E commit_msg \in CommitMessages :
                    Goto("db_add", <<>>, <<e, Did("input: Enter commit message: ", "returned", commit_msg)>>)
            ELSE Goto("db_push", <<>>, <<e>>)
    /\ UNCHANGED <<envVars, repo, command, deployVars, backupVars>>

DB_Add ==
    /\ pc = "db_add"
    /\ \E code \in ExitCodes :
         LET cmd == "git add ."
             r == run_command(cmd, "root", TRUE, <<>>, code)
             e == <<Ran(cmd, "root", TRUE, code, r)>>
         IN IF r.exits
            THEN Goto("exit1", r.printed, e) /\ UNCHANGED repo
            ELSE Goto("db_commit", r.printed, e) /\ repo' = GitAddAll(repo)
    /\ UNCHANGED <<envVars, command, deployVars, backupVars>>

DB_Commit ==
    /\ pc = "db_commit"
    /\ \E code \in ExitCodes :
         LET cmd == "git commit -m"
             r == run_command(cmd, "root", TRUE, <<>>, code)
             e == <<Ran(cmd, "root", TRUE, code, r)>>
         IN IF r.exits
            THEN Goto("exit1", r.printed, e) /\ UNCHANGED repo
            ELSE /\ Goto("db_push", r.printed \o <<print_success("Changes committed", NoArg)>>, e)
                 /\ repo' = GitCommit(repo)
    /\ UNCHANGED <<envVars, command, deployVars, backupVars>>

DB_Push ==
    /\ pc = "db_push"
    /\ \E code \in ExitCodes :
         LET cmd == "git push heroku main"
             r == run_command(cmd, "root", FALSE, <<>>, code)
             info == <<print_info("Deploying to Heroku...", NoArg)>>
             e == <<Ran(cmd, "root", FALSE, code, r)>>
         IN IF r.exits
            THEN /\ Goto("exit1", info \o r.printed, e)
                 /\ UNCHANGED <<envVars, repo, command, deployVars, backupVars>>
            ELSE IF r.code # 0
            THEN ReturnFromBackend(FALSE,
                     info \o r.printed \o <<print_error("Heroku deployment failed:", NoArg),
                                             print("<stderr>", NoArg)>>, e)
            ELSE ReturnFromBackend(TRUE,
                     info \o r.printed \o <<print_success("Backend deployed to Heroku", NoArg),
                                             print_info("Backend API URL: ", "HEROKU_URL")>>, e)

-----------------------------------------------------------------------------
(* check_status                                                             *)

StatusCodes == {200, 301, 500}
ExceptionTexts == {"ConnectionError", "No module named 'requests'"}

\* what `import requests; requests.get(url, timeout=10)` may do
HttpOutcomes ==
    [raised : {FALSE}, status_code : StatusCodes, text : {""}] \cup
    [raised : {TRUE}, status_code : {0}, text : ExceptionTexts]

\* variant: `response.status_code < 400`, so that a redirect counts as healthy
CheckEndpoint_Below400(name, o, with_json, json_ok) ==
    IF o.raised
    THEN <<print_error("Could not connect to " \o name \o ": ", o.text)>>
    ELSE IF o.status_code < 400
    THEN <<print_success(name \o " is up and running", NoArg)>>
         \o (IF with_json /\ json_ok THEN <<print_info("API Status: ", "<json>")>> ELSE <<>>)
    ELSE <<print_warning(name \o " returned status code: ", o.status_code)>>

\* the try/except around one endpoint's request: the lines it prints.
\* json_ok: response.json() parsed (only the Heroku check asks for it)
CheckEndpoint(name, o, with_json, json_ok) ==
    IF o.raised
    THEN <<print_error("Could not connect to " \o name \o ": ", o.text)>>
    ELSE IF o.status_code = 200
    THEN <<print_success(name \o " is up and running", NoArg)>>
         \o (IF with_json /\ json_ok THEN <<print_info("API Status: ", "<json>")>> ELSE <<>>)
    ELSE <<print_warning(name \o " returned status code: ", o.status_code)>>

ST_Pages ==
    /\ pc = "check_status"
    /\ \E o \in HttpOutcomes :
         Goto("st_heroku",
              <<print_header("Checking Deployment Status"),
                print_info("Checking GitHub Pages status...", NoArg)>>
              \o CheckEndpoint("GitHub Pages", o, FALSE, FALSE),
              <<Did("requests.get GITHUB_PAGES_URL", IF o.raised THEN "Exception" ELSE "returned", o)>>)
    /\ UNCHANGED <<envVars, repo, command, deployVars, backupVars>>

ST_Heroku ==
    /\ pc = "st_heroku"
    /\ \E o \in HttpOutcomes, json_ok \in BOOLEAN :
         /\ (o.raised \/ o.status_code # 200) => json_ok = FALSE
         /\ Goto("st_git",
                 <<print_info("Checking Heroku status...", NoArg)>>
                 \o CheckEndpoint("Heroku API", o, TRUE, json_ok),
                 <<Did("requests.get HEROKU_API_HEALTH_URL", IF o.raised THEN "Exception" ELSE "returned", o)>>)
    /\ UNCHANGED <<envVars, repo, command, deployVars, backupVars>>

ST_Git ==
    /\ pc = "st_git"
    /\ \E code \in ExitCodes :
         LET cmd == "git status -s"
             r == run_command(cmd, "root", TRUE, GitStatusOutput(repo), code)
             e == <<Ran(cmd, "root", TRUE, code, r)>>
         IN IF r.exits THEN Goto("exit1", r.printed, e)
            ELSE IF r.stdout # <<>>
            THEN Goto("done", <<print_warning("You have uncommitted changes:", NoArg),
                                print("<stdout>", r.stdout)>>, e)
            ELSE Goto("done", <<print_success("Git repository is clean", NoArg)>>, e)
    /\ UNCHANGED <<envVars, repo, command, deployVars, backupVars>>

-----------------------------------------------------------------------------
(* update_dependencies                                                      *)

\* the report after one `npm update`
UpdateReport(which, code) ==
    IF code # 0
    THEN <<print_error(which \o " dependency update failed:", NoArg), print("<stderr>", NoArg)>>
    ELSE <<print_success(which \o " dependencies updated", NoArg)>>

\* variant: check=False left out, so that the update is run strictly
NpmUpdate_Strict(which, cwd, intro, to) ==
    \E code \in ExitCodes :
        LET r == run_command("npm update", cwd, TRUE, <<>>, code)
            e == <<Ran("npm update", cwd, TRUE, code, r)>>
        IN IF r.exits THEN Goto("exit1", intro \o r.printed, e)
           ELSE Goto(to, intro \o r.printed \o UpdateReport(which, r.code), e)

\* one `npm update`, run non-strictly in `cwd`, continuing at `to`
NpmUpdate(which, cwd, intro, to) ==
    \E code \in ExitCodes :
        LET r == run_command("npm update", cwd, FALSE, <<>>, code)
            e == <<Ran("npm update", cwd, FALSE, code, r)>>
        IN IF r.exits THEN Goto("exit1", intro \o r.printed, e)
           ELSE Goto(to, intro \o r.printed \o UpdateReport(which, r.code), e)

UD_Frontend ==
    /\ pc = "update_dependencies"
    /\ NpmUpdate("Frontend", "root",
                 <<print_header("Updating Dependencies"),
                   print_info("Updating frontend dependencies...", NoArg)>>,
                 "ud_backend")
    /\ UNCHANGED <<envVars, repo, command, deployVars, backupVars>>

UD_Backend ==
    /\ pc = "ud_backend"
    /\ NpmUpdate("Backend", "server",
                 <<print_info("Updating backend dependencies...", NoArg)>>,
                 "done")
    /\ UNCHANGED <<envVars, repo, command, deployVars, backupVars>>

-----------------------------------------------------------------------------
(* create_backup                                                            *)
(* A file of the backup directory is [path, content]; a path is a sequence  *)
(* of components, <<p>> for the repository's path p, and the component 0    *)
(* stands for the directory name backup_<timestamp> itself.                 *)

\* os.makedirs(backup_dir) creates the directory in the process's cwd; every
\* run_command runs in PROJECT_ROOT
RootBackupDirExists == cwdIsRoot /\ backup_dir.exists

\* files `git archive HEAD | tar -x -C backup_dir` extracts
HeadFiles(r) == {[path |-> <<p>>, content |-> r[p].head] : p \in {q \in Paths : r[q].head # 0}}

\* stdout of `git ls-files --others --exclude-standard` in PROJECT_ROOT: the
\* files that are neither in the index nor ignored, those already extracted
\* into PROJECT_ROOT/backup_<timestamp> among them unless .gitignore covers it
LsFilesOthers(r, dir_files, ignored) ==
    [i \in 1..Len(SortedPaths({p \in Paths : r[p].idx = 0 /\ r[p].work # 0 /\ ~r[p].ign})) |->
        <<SortedPaths({p \in Paths : r[p].idx = 0 /\ r[p].work # 0 /\ ~r[p].ign})[i]>>]
    \o
    (IF ignored THEN <<>>
     ELSE [i \in 1..Len(SortedPaths({p \in Paths : \E f \in dir_files : f.path = <<p>>})) |->
            <<0, SortedPaths({p \in Paths : \E f \in dir_files : f.path = <<p>>})[i]>>])

\* stdout.strip().split('\n'): the empty output gives one empty name
split_lines(stdout) == IF stdout = <<>> THEN << <<>> >> ELSE stdout

\* os.path.isfile(file), the name resolved against the process's cwd
isfile(file) ==
    IF file[1] = 0
    THEN backup_dir.exists /\ \E f \in backup_dir.files : f.path = Tail(file)
    ELSE cwdIsRoot /\ repo[file[1]].work # 0

\* the content shutil.copy2 reads from `file`
ContentOf(file) ==
    IF file[1] = 0
    THEN (CHOOSE f \in backup_dir.files : f.path = Tail(file)).content
    ELSE repo[file[1]].work

\* shutil.copy2(file, os.path.join(backup_dir, file))
copy2(files, file) ==
    {f \in files : f.path # file} \cup {[path |-> file, content |-> ContentOf(file)]}

\* variant: a bare `except:`, which catches SystemExit too
CaughtByExceptException_Bare(exc) == TRUE

\* `except Exception` catches every class derived from Exception; the
\* SystemExit that sys.exit raises derives from BaseException alone
CaughtByExceptException(exc) == exc # "SystemExit"

\* an exception raised inside create_backup's try block
RaiseInBackup(exc, text, printed, entries) ==
    IF CaughtByExceptException(exc)
    THEN Goto("done", printed \o <<print_error("Backup failed: ", text)>>, entries)
    ELSE Goto("exit1", printed, entries)

BK_CheckGit ==
    /\ pc = "create_backup"
    /\ \E code \in ExitCodes :
         LET cmd == "git status --porcelain"
             r == run_command(cmd, "root", TRUE, GitStatusOutput(repo), code)
             hdr == <<print_header("Creating Backup")>>
             e == <<Ran(cmd, "root", TRUE, code, r)>>
         IN IF r.exits THEN Goto("exit1", hdr \o r.printed, e)
            ELSE IF check_git_status(r.stdout)
            THEN Goto("bk_makedirs",
                      hdr \o <<print_warning("There are uncommitted changes. These will be included in the backup.", NoArg)>>, e)
            ELSE Goto("bk_makedirs", hdr, e)
    /\ UNCHANGED <<envVars, repo, command, deployVars, backupVars>>

BK_Makedirs ==
    /\ pc = "bk_makedirs"
    /\ \E ok \in BOOLEAN :
         IF ok
         THEN /\ backup_dir' = [exists |-> TRUE, files |-> {}]
              /\ Goto("bk_export", <<>>, <<Did("os.makedirs backup_dir", "returned", NoArg)>>)
         ELSE /\ UNCHANGED backup_dir
              /\ RaiseInBackup("OSError", "makedirs", <<>>, <<Did("os.makedirs backup_dir", "OSError", NoArg)>>)
    /\ UNCHANGED <<envVars, repo, command, deployVars, archive, untracked_files>>

BK_Export ==
    /\ pc = "bk_export"
    /\ \E code \in ExitCodes :
         LET cmd == "git archive HEAD | tar -x -C backup_dir"
             r == run_command(cmd, "root", TRUE, <<>>, code)
             e == <<Ran(cmd, "root", TRUE, code, r)>>
         IN \* tar cannot enter a directory PROJECT_ROOT does not have
            /\ ~RootBackupDirExists => code # 0
            /\ IF r.exits
               THEN /\ RaiseInBackup("SystemExit", "", r.printed, e)
                    /\ UNCHANGED backup_dir
               ELSE /\ Goto("bk_list", r.printed, e)
                    /\ backup_dir' = [backup_dir EXCEPT !.files = HeadFiles(repo)]
    /\ UNCHANGED <<envVars, repo, command, deployVars, archive, untracked_files>>

BK_List ==
    /\ pc = "bk_list"
    /\ \E code \in ExitCodes :
         LET cmd == "git ls-files --others --exclude-standard"
             r == run_command(cmd, "root", TRUE,
                              LsFilesOthers(repo, IF RootBackupDirExists THEN backup_dir.files ELSE {},
                                            backupIgnored), code)
             e == <<Ran(cmd, "root", TRUE, code, r)>>
         IN IF r.exits
            THEN /\ RaiseInBackup("SystemExit", "", r.printed, e)
                 /\ UNCHANGED untracked_files
            ELSE /\ Goto("bk_copy", r.printed, e)
                 /\ untracked_files' = split_lines(r.stdout)
    /\ UNCHANGED <<envVars, repo, command, deployVars, backup_dir, archive>>

\* one iteration of `for file in untracked_files`
BK_Copy ==
    /\ pc = "bk_copy"
    /\ untracked_files # <<>>
    /\ LET file == Head(untracked_files)
       IN IF file = <<>>
          THEN /\ Goto("bk_copy", <<>>, <<>>)
               /\ untracked_files' = Tail(untracked_files)
               /\ UNCHANGED backup_dir
          ELSE \E ok \in BOOLEAN :
                 IF ~ok
                 THEN /\ RaiseInBackup("OSError", "copy", <<>>, <<Did("shutil.copy2", "OSError", file)>>)
                      /\ UNCHANGED <<backup_dir, untracked_files>>
                 ELSE /\ Goto("bk_copy", <<>>, <<Did("shutil.copy2", "returned", file)>>)
                      /\ untracked_files' = Tail(untracked_files)
                      /\ backup_dir' = IF isfile(file)
                                       THEN [backup_dir EXCEPT !.files = copy2(@, file)]
                                       ELSE backup_dir
    /\ UNCHANGED <<envVars, repo, command, deployVars, archive>>

BK_Compress ==
    /\ pc = "bk_copy"
    /\ untracked_files = <<>>
    /\ \E code \in ExitCodes, partial \in BOOLEAN :
         LET cmd == "tar -czf backup_dir.tar.gz backup_dir"
             r == run_command(cmd, "root", TRUE, <<>>, code)
             e == <<Ran(cmd, "root", TRUE, code, r)>>
         IN /\ ~RootBackupDirExists => code # 0
            /\ code = 0 => ~partial
            /\ IF r.exits
               THEN /\ RaiseInBackup("SystemExit", "", r.printed, e)
                    \* a failed tar may leave an incomplete archive file behind
                    /\ archive' = IF partial THEN [exists |-> TRUE, files |-> {}] ELSE archive
               ELSE /\ Goto("bk_rmtree", r.printed, e)
                    /\ archive' = [exists |-> TRUE, files |-> backup_dir.files]
    /\ UNCHANGED <<envVars, repo, command, deployVars, backup_dir, untracked_files>>

BK_Rmtree ==
    /\ pc = "bk_rmtree"
    /\ \E ok \in BOOLEAN :
         IF ok
         THEN /\ backup_dir' = [exists |-> FALSE, files |-> {}]
              /\ Goto("done", <<print_success("Backup created: ", "backup_dir.tar.gz")>>,
                      <<Did("shutil.rmtree backup_dir", "returned", NoArg)>>)
         ELSE /\ UNCHANGED backup_dir
              /\ RaiseInBackup("OSError", "rmtree", <<>>, <<Did("shutil.rmtree backup_dir", "OSError", NoArg)>>)
    /\ UNCHANGED <<envVars, repo, command, deployVars, archive, untracked_files>>

-----------------------------------------------------------------------------

Next ==
    \/ Main
    \/ DF_CheckGit \/ DF_Prompt \/ DF_Build \/ DF_Publish
    \/ DB_CheckGit \/ DB_Prompt \/ DB_Add \/ DB_Commit \/ DB_Push
    \/ ST_Pages \/ ST_Heroku \/ ST_Git
    \/ UD_Frontend \/ UD_Backend
    \/ BK_CheckGit \/ BK_Makedirs \/ BK_Export \/ BK_List \/ BK_Copy
    \/ BK_Compress \/ BK_Rmtree

Spec == Init /\ [][Next]_vars

-----------------------------------------------------------------------------
(* Properties.                                                              *)

Terminated == pc \in {"done", "exit1"}

Printed(kind, text) ==
    \E i \in 1..Len(out) : out[i].kind = kind /\ out[i].text = text

\* a strict invocation of run_command whose child exited non-zero
StrictFailure(e) == e.kind = "run" /\ e.check /\ e.code # 0

\* deploy_backend was entered: control is at its first statement, or that
\* statement (the header) has been executed
DeployBackendEntered ==
    pc = "deploy_backend" \/ Printed("header", "Deploying Backend to Heroku")

\* C1 as claimed: in deploy-all the backend deploy step is entered after the
\* frontend deploy step for every outcome of the frontend step, failures of
\* the commands it runs included: a finished deploy-all run has entered
\* deploy_backend.
C1_AlwaysBackend ==
    (command = S_deploy_all /\ Terminated) => DeployBackendEntered

\* C1, amended: in deploy-all, whenever deploy_frontend returns (true or
\* false), deploy_backend is entered next; the only runs that finish without
\* entering it are those in which deploy_frontend's strict
\* `git status --porcelain` exited non-zero and ended the program with code 1.
C1_BackendAfterFrontendReturns ==
    command = S_deploy_all =>
        /\ frontend_ok # "unset" => DeployBackendEntered
        /\ (Terminated /\ ~DeployBackendEntered) =>
              /\ frontend_ok = "unset"
              /\ exitCode = 1
              /\ Len(log) = 1
              /\ StrictFailure(log[1])
              /\ log[1].op = "git status --porcelain"

\* a failed frontend step (the build failed) followed by the backend step
C1_Witness ==
    /\ command = S_deploy_all
    /\ frontend_ok = "False"
    /\ pc = "deploy_backend"
    /\ \E i \in 1..Len(log) : log[i].op = "npm run build" /\ log[i].code # 0

BackupSucceeded == Printed("success", "Backup created: ")

\* the files of the working tree that are tracked (in the index) or
\* untracked and not ignored, with their working-tree content
WorkingTreeFiles ==
    {[path |-> <<p>>, content |-> repo[p].work] :
        p \in {q \in Paths : repo[q].work # 0 /\ (repo[q].idx # 0 \/ ~repo[q].ign)}}

\* C2 as claimed: after a successful backup the archive holds exactly the
\* tracked and untracked files, each with the content it has in the working
\* tree, uncommitted modifications included.
C2_ArchiveIsWorkingTree ==
    BackupSucceeded => archive.files = WorkingTreeFiles

\* the part of C2 that the warning of create_backup promises: a tracked file
\* edited since the last commit is archived with its edited content
C2_ModificationsIncluded ==
    BackupSucceeded =>
        \A p \in Paths :
            (repo[p].head # 0 /\ repo[p].work # 0) =>
                [path |-> <<p>>, content |-> repo[p].work] \in archive.files

\* a step of the try block of create_backup failed: a command exited
\* non-zero or a library call raised
BackupStepFailed ==
    \E i \in 2..Len(log) :
        \/ log[i].kind = "run" /\ log[i].code # 0
        \/ log[i].kind = "call" /\ log[i].outcome = "OSError"

\* C3 as claimed: whichever step of the backup sequence fails, the program
\* prints 'Backup failed' and exits with code 0.
C3_EveryFailureReported ==
    (command = S_backup /\ Terminated /\ BackupStepFailed) =>
        (exitCode = 0 /\ Printed("error", "Backup failed: "))

\* C3, amended: when a library call of the backup sequence raises (creating
\* the directory, copying an untracked file, deleting the directory), the
\* program prints 'Backup failed' and exits with code 0; when one of its
\* commands (exporting the tracked files, listing the untracked files,
\* compressing) exits non-zero, run_command prints 'Command failed', no
\* 'Backup failed' is printed and the process exits with code 1.
C3_FailureByKind ==
    (command = S_backup /\ Terminated /\ BackupStepFailed) =>
        LET last == log[Len(log)]
        IN /\ (last.kind = "call" /\ last.outcome = "OSError") =>
                (exitCode = 0 /\ Printed("error", "Backup failed: "))
           /\ (last.kind = "run" /\ last.code # 0) =>
                /\ exitCode = 1
                /\ Printed("error", "Command failed: ")
                /\ ~Printed("error", "Backup failed: ")
           /\ \/ last.kind = "call" /\ last.outcome = "OSError"
              \/ last.kind = "run" /\ last.code # 0

\* copying an untracked file failed, after the export and the listing
C3_Witness ==
    /\ command = S_backup
    /\ pc = "done"
    /\ Len(log) >= 4
    /\ log[Len(log)].op = "shutil.copy2"
    /\ log[Len(log)].outcome = "OSError"

\* the operations of create_backup's try block, in the order performed
BackupOps == SelectSeq(log, LAMBDA e : e.op # "git status --porcelain")

\* C4: whenever the backup reports success, the directory backup_<timestamp>
\* is gone and the archive exists in the project root; the steps ran in the
\* order create, populate (export, list, copies), compress, delete; and the
\* directory is never deleted unless the compress command has exited with 0.
C4_Lifecycle ==
    /\ BackupSucceeded =>
          /\ ~backup_dir.exists
          /\ archive.exists
          /\ Len(BackupOps) >= 5
          /\ BackupOps[1].op = "os.makedirs backup_dir"
          /\ BackupOps[2].op = "git archive HEAD | tar -x -C backup_dir"
          /\ BackupOps[3].op = "git ls-files --others --exclude-standard"
          /\ \A i \in 4..(Len(BackupOps) - 2) : BackupOps[i].op = "shutil.copy2"
          /\ BackupOps[Len(BackupOps) - 1].op = "tar -czf backup_dir.tar.gz backup_dir"
          /\ BackupOps[Len(BackupOps)].op = "shutil.rmtree backup_dir"
    /\ \A i \in 1..Len(log) :
          log[i].op = "shutil.rmtree backup_dir" =>
             /\ i > 1
             /\ log[i-1].op = "tar -czf backup_dir.tar.gz backup_dir"
             /\ log[i-1].code = 0

\* a successful backup that copied an untracked file
C4_Witness ==
    /\ BackupSucceeded
    /\ \E i \in 1..Len(log) : log[i].op = "shutil.copy2"

\* C5: a strict invocation whose command exits non-zero prints the error and
\* ends the program with a non-zero exit code (nothing runs after it); a
\* non-strict invocation always returns, with the command's exit code; an
\* invocation whose command exits 0 returns 0 in both modes.
C5_ProcessRunner ==
    \A i \in 1..Len(log) :
        log[i].kind = "run" =>
            /\ (log[i].check /\ log[i].code # 0) =>
                  /\ log[i].outcome = "SystemExit"
                  /\ i = Len(log)
                  /\ pc = "exit1"
                  /\ exitCode # 0
                  /\ Len(out) >= 2
                  /\ out[Len(out) - 1].kind = "error"
                  /\ out[Len(out) - 1].text = "Command failed: "
                  /\ out[Len(out) - 1].arg = log[i].op
            /\ ~log[i].check => (log[i].outcome = "returned" /\ log[i].ret = log[i].code)
            /\ log[i].code = 0 => (log[i].outcome = "returned" /\ log[i].ret = 0)
            /\ (log[i].outcome = "returned" /\ i = Len(log)) => exitCode # 1

\* a non-strict failure was returned to the caller and a later strict
\* failure ended the program
C5_Witness ==
    /\ \E i \in 1..Len(log) : log[i].kind = "run" /\ ~log[i].check /\ log[i].code # 0
    /\ \E i \in 1..Len(log) : StrictFailure(log[i])

\* the line printed for HTTP outcome o: success for 200, a warning carrying
\* the code for any other status, an error carrying the exception's text
ClassifiedAs(line, o) ==
    /\ (~o.raised /\ o.status_code = 200) => line.kind = "success"
    /\ (~o.raised /\ o.status_code # 200) =>
          (line.kind = "warning" /\ line.arg = o.status_code)
    /\ o.raised => (line.kind = "error" /\ line.arg = o.text)

\* the position in `out` of the line "Checking Heroku status..."
HerokuInfoAt ==
    CHOOSE i \in 1..Len(out) : out[i].kind = "info" /\ out[i].text = "Checking Heroku status..."

\* C6: each endpoint's outcome is classified on its own; whatever the first
\* request does, the second request is made, and whatever both do, the git
\* cleanliness check is run; no HTTP outcome ends the program.
C6_StatusCheck ==
    command = S_status =>
        /\ Len(log) >= 1 =>
              /\ log[1].op = "requests.get GITHUB_PAGES_URL"
              /\ Len(out) >= 3
              /\ ClassifiedAs(out[3], log[1].val)
              /\ pc = "st_heroku" \/ Len(log) >= 2
        /\ Len(log) >= 2 =>
              /\ log[2].op = "requests.get HEROKU_API_HEALTH_URL"
              /\ Printed("info", "Checking Heroku status...")
              /\ Len(out) > HerokuInfoAt
              /\ ClassifiedAs(out[HerokuInfoAt + 1], log[2].val)
              /\ pc = "st_git" \/ Len(log) >= 3
        /\ Len(log) >= 3 => log[3].op = "git status -s"
        /\ Terminated => Len(log) = 3
        /\ exitCode = 1 => StrictFailure(log[Len(log)])

\* the first request raised, the second got a 500, and the git check is next
C6_Witness ==
    /\ command = S_status
    /\ pc = "st_git"
    /\ log[1].val.raised
    /\ ~log[2].val.raised /\ log[2].val.status_code = 500

\* C7: a first argument that is no command after lower-casing gets the
\* 'Unknown command' error naming it, then the help table, runs nothing and
\* exits 0; no argument gives exactly the output of the help command.
C7_Dispatcher ==
    pc # "main" =>
        /\ (argv # <<>> /\ lower(argv[1]) \notin KnownCommands) =>
              /\ pc = "done" /\ exitCode = 0
              /\ log = <<>>
              /\ backup_dir.exists = FALSE /\ archive.exists = FALSE
              /\ Len(out) = 1 + Len(show_help)
              /\ out[1].kind = "error"
              /\ out[1].text = "Unknown command: "
              /\ out[1].arg = lower(argv[1])
              /\ SubSeq(out, 2, Len(out)) = show_help
        /\ (argv = <<>> \/ (argv # <<>> /\ lower(argv[1]) \in HelpCommands)) =>
              /\ pc = "done" /\ exitCode = 0
              /\ log = <<>>
              /\ out = show_help

\* an unknown command written with capitals has been answered
C7_Witness ==
    /\ argv = << <<"F","o","o">> >>
    /\ pc = "done"

\* C8: the update in the backend directory is always run after the one in
\* the project root, whatever that one's exit code; each failure is
\* reported, and none ends the program or skips the other update.
C8_UpdateDependencies ==
    command = S_update_deps =>
        /\ Len(log) >= 1 =>
              /\ log[1].op = "npm update" /\ log[1].cwd = "root"
              /\ pc = "ud_backend" \/ Len(log) >= 2
              /\ log[1].code # 0 <=> Printed("error", "Frontend dependency update failed:")
              /\ log[1].code = 0 <=> Printed("success", "Frontend dependencies updated")
        /\ Len(log) >= 2 =>
              /\ log[2].op = "npm update" /\ log[2].cwd = "server"
              /\ log[2].code # 0 <=> Printed("error", "Backend dependency update failed:")
              /\ log[2].code = 0 <=> Printed("success", "Backend dependencies updated")
        /\ Terminated => (Len(log) = 2 /\ exitCode = 0)

\* both updates failed and the program ended normally
C8_Witness ==
    /\ command = S_update_deps
    /\ pc = "done"
    /\ log[1].code # 0
    /\ log[2].code # 0

\* C9: the exit code is non-zero only if a strict invocation of run_command
\* got a non-zero exit code; every run that ends otherwise exits with 0; and
\* deploy-all prints the all-success message exactly when both steps
\* returned true.
C9_ExitCodes ==
    /\ Terminated =>
          /\ exitCode # 0 => (Len(log) >= 1 /\ StrictFailure(log[Len(log)]))
          /\ (\A i \in 1..Len(log) : ~StrictFailure(log[i])) => exitCode = 0
    /\ (command = S_deploy_all /\ pc = "done") =>
          /\ Printed("success", "Both frontend and backend deployed successfully!")
                <=> (frontend_ok = "True" /\ backend_ok = "True")
          /\ Printed("warning", "There were issues with the deployment. Check the logs above.")
                <=> ~(frontend_ok = "True" /\ backend_ok = "True")
    /\ command # S_deploy_all =>
          ~Printed("success", "Both frontend and backend deployed successfully!")

\* deploy-all ended with code 0 after the frontend failed and the backend
\* succeeded
C9_Witness ==
    /\ command = S_deploy_all
    /\ pc = "done"
    /\ exitCode = 0
    /\ frontend_ok = "False"
    /\ backend_ok = "True"

IsBuild(e)   == e.op = "npm run build"
IsPublish(e) == e.op = "npx gh-pages -d build -r GITHUB_REPO_URL"
IsConfirm(e) == e.op = "input: Do you want to continue anyway? (y/n): "

\* C10: the build runs only if the repository is clean or the (lower-cased)
\* answer to the prompt is 'y'; the publish runs only right after a build
\* that exited 0; deploy_frontend returns true exactly when the publish ran
\* and exited 0, and returns false at once when the user declines, the build
\* fails or the publish fails.
C10_FrontendOrdering ==
    /\ \A i \in 1..Len(log) :
          /\ IsBuild(log[i]) =>
                /\ i > 1
                /\ \/ (i = 2 /\ log[1].op = "git status --porcelain"
                             /\ log[1].code = 0 /\ log[1].val = <<>>)
                   \/ (i = 3 /\ IsConfirm(log[2]) /\ log[2].val = S_y
                             /\ log[1].op = "git status --porcelain" /\ log[1].code = 0)
          /\ IsPublish(log[i]) => (i > 1 /\ IsBuild(log[i-1]) /\ log[i-1].code = 0)
    /\ frontend_ok = "True" <=> \E i \in 1..Len(log) : IsPublish(log[i]) /\ log[i].code = 0
    /\ frontend_ok = "False" <=>
          \E i \in 1..Len(log) :
             /\ \/ IsConfirm(log[i]) /\ log[i].val # S_y
                \/ IsBuild(log[i]) /\ log[i].code # 0
                \/ IsPublish(log[i]) /\ log[i].code # 0
             /\ \A j \in (i+1)..Len(log) :
                   ~IsConfirm(log[j]) /\ ~IsBuild(log[j]) /\ ~IsPublish(log[j])
    /\ frontend_ok = "unset" =>
          \A i \in 1..Len(log) :
             /\ IsConfirm(log[i]) => log[i].val = S_y
             /\ (IsBuild(log[i]) \/ IsPublish(log[i])) => log[i].code = 0

\* dirty repository, the user typed Y, build and publish succeeded
C10_Witness ==
    /\ frontend_ok = "True"
    /\ Len(log) >= 4
    /\ IsConfirm(log[2])
    /\ IsPublish(log[4]) /\ log[4].code = 0

====
